---- MODULE Spec2Model ----
(***************************************************************************)
(* A model of the code generator of graphql-client (graphql_client_codegen) *)
(* : operation selection, the reachability ("required") flags, the          *)
(* rendering of response and input-object fields, and the assembly of the  *)
(* generated module.                                                       *)
(*                                                                         *)
(* Conventions.  An Option<T> is a sequence of length at most one: <<>> is *)
(* None and <<x>> is Some(x).  A field name or alias is a sequence of      *)
(* one-character strings, so that case conversion is computed and not      *)
(* assumed.  A FieldType, a chain of Optional/Vector wrappers around one   *)
(* Named type, is the record [wrappers, name] with the outermost wrapper   *)
(* first.                                                                  *)
(***************************************************************************)
EXTENDS Integers, Sequences, FiniteSets, TLC

\* ------------------------------------------------------------------------
\* Characters and heck's case conversion
\* ------------------------------------------------------------------------

UpperChars == <<"A","B","C","D","E","F","G","H","I","J","K","L","M","N","O","P","Q","R","S","T","U","V","W","X","Y","Z">>

LowerChars == <<"a","b","c","d","e","f","g","h","i","j","k","l","m","n","o","p","q","r","s","t","u","v","w","x","y","z">>

IsUpper(c) == \E i \in 1..Len(UpperChars) : UpperChars[i] = c

IsLower(c) == \E i \in 1..Len(LowerChars) : LowerChars[i] = c

ToLower(c) ==
    IF IsUpper(c)
    THEN LowerChars[CHOOSE i \in 1..Len(UpperChars) : UpperChars[i] = c]
    ELSE c

\* heck's transform, with snake case's word (lowercase) and boundary ("_"):
\* the string is split at every character that is not alphanumeric; inside a
\* piece a word ends between a lowercase and an uppercase character, and
\* before the last of a run of uppercase characters that a lowercase one
\* follows; the words are lowercased and joined by "_".  wordStart says that
\* the character at i opens a piece.
RECURSIVE SnakeFrom(_, _, _, _)
SnakeFrom(s, i, out, wordStart) ==
    IF i > Len(s) THEN out
    ELSE IF s[i] = "_" THEN SnakeFrom(s, i + 1, out, TRUE)
    ELSE
      LET c == s[i]
          afterLower == i > 1 /\ IsLower(s[i-1]) /\ IsUpper(c)
          lastOfRun  == /\ i > 1 /\ IsUpper(s[i-1]) /\ IsUpper(c)
                        /\ i < Len(s) /\ IsLower(s[i+1])
          boundary   == wordStart \/ afterLower \/ lastOfRun
          sep        == IF boundary /\ out # <<>> THEN <<"_">> ELSE <<>>
      IN  SnakeFrom(s, i + 1, out \o sep \o <<ToLower(c)>>, FALSE)

to_snake_case(s) == SnakeFrom(s, 1, <<>>, TRUE)

\* ------------------------------------------------------------------------
\* shared.rs: rendering of one field
\* ------------------------------------------------------------------------

\* The keywords render_object_field escapes.
reserved == {
    <<"a","b","s","t","r","a","c","t">>, <<"a","l","i","g","n","o","f">>, <<"a","s">>,
    <<"b","e","c","o","m","e">>, <<"b","o","x">>, <<"b","r","e","a","k">>,
    <<"c","o","n","s","t">>, <<"c","o","n","t","i","n","u","e">>, <<"c","r","a","t","e">>,
    <<"d","o">>, <<"e","l","s","e">>, <<"e","n","u","m">>, <<"e","x","t","e","r","n">>,
    <<"f","a","l","s","e">>, <<"f","i","n","a","l">>, <<"f","n">>, <<"f","o","r">>,
    <<"i","f">>, <<"i","m","p","l">>, <<"i","n">>, <<"l","e","t">>, <<"l","o","o","p">>,
    <<"m","a","c","r","o">>, <<"m","a","t","c","h">>, <<"m","o","d">>, <<"m","o","v","e">>,
    <<"m","u","t">>, <<"o","f","f","s","e","t","o","f">>,
    <<"o","v","e","r","r","i","d","e">>, <<"p","r","i","v">>, <<"p","r","o","c">>,
    <<"p","u","b">>, <<"p","u","r","e">>, <<"r","e","f">>, <<"r","e","t","u","r","n">>,
    <<"S","e","l","f">>, <<"s","e","l","f">>, <<"s","i","z","e","o","f">>,
    <<"s","t","a","t","i","c">>, <<"s","t","r","u","c","t">>, <<"s","u","p","e","r">>,
    <<"t","r","a","i","t">>, <<"t","r","u","e">>, <<"t","y","p","e">>,
    <<"t","y","p","e","o","f">>, <<"u","n","s","a","f","e">>,
    <<"u","n","s","i","z","e","d">>, <<"u","s","e">>, <<"v","i","r","t","u","a","l">>,
    <<"w","h","e","r","e">>, <<"w","h","i","l","e">>, <<"y","i","e","l","d">> }

\* quote!(): no tokens.
NoDeprecation == [marker |-> FALSE, note |-> <<>>]

EmptyTokens ==
    [empty |-> TRUE, flatten |-> FALSE, doc |-> <<>>, deprecation |-> NoDeprecation,
     rename |-> <<>>, ident |-> <<>>, ty |-> <<>>]

\* The annotation is written whether or not the two names differ.
field_rename_annotation_Always(graphql_name, rust_name) == <<graphql_name>>

\* #[serde(rename = graphql_name)] when the two names differ, else nothing.
field_rename_annotation(graphql_name, rust_name) ==
    IF graphql_name # rust_name THEN <<graphql_name>> ELSE <<>>

\* The deprecation is marked under Allow as it is under Warn.
DeprecationTokens_IgnoreAllow(status, strategy) ==
    IF status.kind = "Current" THEN NoDeprecation
    ELSE [marker |-> TRUE, note |-> status.reason]

\* status is [kind |-> "Current" | "Deprecated", reason |-> Option]; the
\* match on the status and the strategy is taken arm by arm, in the order of
\* the source; the arm of Deny is that of render_object_field.
DeprecationTokens(status, strategy) ==
    IF strategy = "Allow" THEN NoDeprecation
    ELSE IF status.kind = "Current" THEN NoDeprecation
    ELSE IF status.reason # <<>>
         THEN [marker |-> TRUE, note |-> status.reason]
         ELSE [marker |-> TRUE, note |-> <<>>]

render_object_field(field_name, field_type, description, status, strategy) ==
    IF status.kind = "Deprecated" /\ strategy = "Deny" THEN EmptyTokens
    ELSE IF field_name \in reserved
    THEN [empty |-> FALSE, flatten |-> FALSE, doc |-> description,
          deprecation |-> DeprecationTokens(status, strategy),
          rename |-> <<field_name>>,
          ident |-> field_name \o <<"_">>, ty |-> <<field_type>>]
    ELSE [empty |-> FALSE, flatten |-> FALSE, doc |-> description,
          deprecation |-> DeprecationTokens(status, strategy),
          rename |-> field_rename_annotation(field_name, to_snake_case(field_name)),
          ident |-> to_snake_case(field_name), ty |-> <<field_type>>]

\* ------------------------------------------------------------------------
\* Field types and the schema
\* ------------------------------------------------------------------------

Named(n) == [wrappers |-> <<>>, name |-> n]

Vector(t) == [wrappers |-> <<"Vector">> \o t.wrappers, name |-> t.name]

Optional(t) == [wrappers |-> <<"Optional">> \o t.wrappers, name |-> t.name]

inner_name_str(t) == t.name

\* A field type inside a list or optional wrapper is already indirected.
is_indirected(t) == t.wrappers # <<>>

\* The scalars every schema has; they carry no flag.
DEFAULT_SCALARS == {"Boolean", "Float", "ID", "Int", "String"}

VARIABLES
    schema,       \* [objects, enums, scalars, inputs]: the Schema of the pass
    is_required,  \* [enums, scalars, inputs]: the Cell<bool> of each schema type
    stack,        \* the GqlInput::require calls in progress, innermost last
    steps,        \* loop iterations and returns since the outermost require call
    last_call,    \* the outermost require call: [target, was_required]
    query,        \* the parsed query document: [definitions]
    options,      \* GraphQLClientDeriveOptions
    pc,           \* where generate_module_token_stream stands
    operations,   \* the operations code is generated for
    schema_and_operations,  \* the (schema_output, operation name) pushed so far
    context,      \* the QueryContext of the last response_for_query, as it returned
    result        \* what generate_module_token_stream returns, an Option

requireVars == <<schema, is_required, stack, steps, last_call>>

moduleVars == <<query, options, pc, operations, schema_and_operations, context, result>>

VARIABLES
    caches,       \* QUERY_CACHE and SCHEMA_CACHE: [lock, map], the lock a set of holders
    invocations,  \* the concurrent calls of generate_module_token_stream, up to the schema parse
    inserted      \* for each cache and path, the values inserted, in order

cacheVars == <<caches, invocations, inserted>>

CacheNames == {"QUERY_CACHE", "SCHEMA_CACHE"}

Paths == {"p1", "p2"}

\* lazy_static!: each cache is CacheMap::default(), an empty map behind a free
\* lock; no call is running.
CacheIdle ==
    /\ caches = [c \in CacheNames |-> [lock |-> {}, map |-> [p \in Paths |-> <<>>]]]
    /\ invocations = <<>>
    /\ inserted = [c \in CacheNames |-> [p \in Paths |-> <<>>]]

\* The context of the last call of response_for_query as it returned: how it
\* returned, and the flags of the types and of the fragments; before any call,
\* the flags of the schema.
NotCalled(required) ==
    [outcome |-> "None",
     err |-> [kind |-> "", field |-> <<>>, on |-> "", available |-> <<>>],
     required |-> required, fragments |-> <<>>]

\* No invocation of generate_module_token_stream.
ModuleIdle ==
    /\ query = [definitions |-> <<>>]
    /\ options = [operation_name |-> <<>>, struct_name |-> <<>>, module_name |-> <<>>,
                  deprecation_strategy |-> <<>>]
    /\ pc = "idle"
    /\ operations = <<>>
    /\ schema_and_operations = <<>>
    /\ context = NotCalled(is_required)
    /\ result = <<>>
    /\ CacheIdle

\* Every flag unset, as Schema::from leaves it.
NoneRequired(sch) ==
    [enums   |-> [e \in sch.enums |-> FALSE],
     scalars |-> [x \in sch.scalars |-> FALSE],
     inputs  |-> [i \in DOMAIN sch.inputs |-> FALSE]]

\* ------------------------------------------------------------------------
\* inputs.rs: GqlInput::require, with Schema::require as its callee
\* ------------------------------------------------------------------------

\* GqlInput::require without its early return.
GqlInput_require_NoReturn(sch, req, stk, name) ==
    [req   |-> [req EXCEPT !.inputs[name] = TRUE],
     stack |-> Append(stk, [input |-> name, todo |-> DOMAIN sch.inputs[name]])]

\* GqlInput::require that sets its own flag and visits no field.
GqlInput_require_NoFields(sch, req, stk, name) ==
    IF req.inputs[name]
    THEN [req |-> req, stack |-> stk]
    ELSE [req |-> [req EXCEPT !.inputs[name] = TRUE], stack |-> stk]

\* GqlInput::require up to its loop: return when the flag is set, else set it
\* and start the loop over the fields (a frame with every field to do).
GqlInput_require(sch, req, stk, name) ==
    IF req.inputs[name]
    THEN [req |-> req, stack |-> stk]
    ELSE [req   |-> [req EXCEPT !.inputs[name] = TRUE],
          stack |-> Append(stk, [input |-> name,
                                 todo  |-> DOMAIN sch.inputs[name]])]

\* Schema::require(typename): the type is looked up by kind and marked.
Schema_require(sch, req, stk, typename) ==
    IF typename \in DEFAULT_SCALARS THEN [req |-> req, stack |-> stk]
    ELSE IF typename \in sch.enums
    THEN [req |-> [req EXCEPT !.enums[typename] = TRUE], stack |-> stk]
    ELSE IF typename \in DOMAIN sch.inputs
    THEN GqlInput_require(sch, req, stk, typename)
    ELSE IF typename \in sch.scalars
    THEN [req |-> [req EXCEPT !.scalars[typename] = TRUE], stack |-> stk]
    ELSE [req |-> req, stack |-> stk]

\* One turn of the innermost call's loop: the closure's body on field f, or
\* the return when no field is left.
RequireLoop(sch, req, stk, f) ==
    LET top == stk[Len(stk)]
    IN  IF top.todo = {}
        THEN [req |-> req, stack |-> SubSeq(stk, 1, Len(stk) - 1)]
        ELSE Schema_require(sch, req,
                 [stk EXCEPT ![Len(stk)].todo = top.todo \ {f}],
                 inner_name_str(sch.inputs[top.input][f]))

\* Schema::require run to its return.  The fields are taken in one order:
\* the flags at the return are those of the types the calls reached.
RECURSIVE RunRequire(_, _, _)
RunRequire(sch, req, stk) ==
    IF stk = <<>> THEN req
    ELSE LET todo == stk[Len(stk)].todo
             f    == IF todo = {} THEN <<>> ELSE CHOOSE x \in todo : TRUE
             nxt  == RequireLoop(sch, req, stk, f)
         IN  RunRequire(sch, nxt.req, nxt.stack)

require(sch, req, typename) ==
    LET c == Schema_require(sch, req, <<>>, typename)
    IN  RunRequire(sch, c.req, c.stack)

\* --- the require calls, step by step ------------------------------------

MaxFields == 2

InputNames == {"A", "B", "C"}

\* What a field of an input object may name, and what a caller may require.
InputFieldTypes == InputNames \cup {"E"}

RequiredTypes == InputFieldTypes \cup {"S", "Float"}

FieldNameOf(t) ==
    CASE t = "A" -> <<"a">> [] t = "B" -> <<"b">> [] t = "C" -> <<"c">>
      [] OTHER -> <<"e">>

FieldSets == {ts \in SUBSET InputFieldTypes : Cardinality(ts) <= MaxFields}

InputFields(ts) ==
    [n \in {FieldNameOf(t) : t \in ts} |->
        Named(CHOOSE t \in ts : FieldNameOf(t) = n)]

\* The schemas of input objects A, B, C over an enum E and a scalar S.
InputSchemas ==
    {[objects |-> <<>>, enums |-> {"E"}, scalars |-> {"S"},
      inputs  |-> [i \in InputNames |-> InputFields(g[i])]] :
        g \in [InputNames -> FieldSets]}

NoCall == [target |-> "", was_required |-> FALSE]

InitRequire ==
    /\ schema \in InputSchemas
    /\ is_required = NoneRequired(schema)
    /\ stack = <<>>
    /\ steps = 0
    /\ last_call = NoCall
    /\ ModuleIdle

\* A caller (expand_variables, a field's to_rust) requires a named type.
RequireCall(t) ==
    /\ stack = <<>>
    /\ LET c == Schema_require(schema, is_required, <<>>, t)
       IN  /\ is_required' = c.req
           /\ stack' = c.stack
    /\ steps' = 0
    /\ last_call' = [target |-> t,
                     was_required |-> t \in DOMAIN schema.inputs
                                      /\ is_required.inputs[t]]
    /\ UNCHANGED <<schema, moduleVars, cacheVars>>

\* The innermost GqlInput::require call goes on: one field, or its return.
RequireStep ==
    /\ stack # <<>>
    /\ \E f \in stack[Len(stack)].todo \cup {<<>>} :
          /\ (f = <<>>) <=> (stack[Len(stack)].todo = {})
          /\ LET c == RequireLoop(schema, is_required, stack, f)
             IN  /\ is_required' = c.req
                 /\ stack' = c.stack
    /\ steps' = steps + 1
    /\ UNCHANGED <<schema, last_call, moduleVars, cacheVars>>

NextRequire ==
    \/ \E t \in RequiredTypes : RequireCall(t)
    \/ RequireStep

vars == <<requireVars, moduleVars, cacheVars>>

SpecRequire == InitRequire /\ [][NextRequire]_vars

\* ------------------------------------------------------------------------
\* Selections, errors and the QueryContext
\* ------------------------------------------------------------------------

\* A SelectionItem.  alias is an Option; fields is the nested selection.
Field(name, alias, fields) ==
    [kind |-> "Field", name |-> name, alias |-> alias, fields |-> fields]

FragmentSpread(fragment_name) ==
    [kind |-> "FragmentSpread", name |-> fragment_name, alias |-> <<>>, fields |-> <<>>]

InlineFragment ==
    [kind |-> "InlineFragment", name |-> <<>>, alias |-> <<>>, fields |-> <<>>]

\* A failure::Error: what the message says.
Error(kind, field, on, available) ==
    [kind |-> kind, field |-> field, on |-> on, available |-> available]

NoError == Error("", <<>>, "", <<>>)

\* The result of a step of the pass: the error (NoError when it is Ok), the
\* context with the flags the step set, and the tokens it produced.
Done(ctx, out) == [err |-> NoError, ctx |-> ctx, out |-> out]

Failed(ctx, err) == [err |-> err, ctx |-> ctx, out |-> <<>>]

IsOk(r) == r.err.kind = ""

\* The place of the first field named name, 0 when there is none.
FindField(fields, name) ==
    LET found == {i \in 1..Len(fields) : fields[i].name = name}
    IN  IF found = {} THEN 0 ELSE CHOOSE i \in found : \A j \in found : i <= j

FieldNames(fields) == [i \in 1..Len(fields) |-> fields[i].name]

\* QueryContext::require_fragment: the fragment of that name is flagged.
require_fragment(ctx, name) ==
    IF name \in DOMAIN ctx.fragments
    THEN [ctx EXCEPT !.fragments[name].is_required = TRUE]
    ELSE ctx

\* A type as it is written in the generated code: the wrappers around a
\* schema type's name or, for an object, around the struct generated for the
\* selection at this path (the prefix and the alias, each camel-cased, run
\* together in the source; kept apart here).
TypeTokens(wrappers, name, path) ==
    [wrappers |-> wrappers, name |-> name, path |-> path]

\* FieldType::to_rust: a scalar or an enum the type names is flagged; another
\* type is named by the prefix, or by its own name when the prefix is empty.
FieldType_to_rust(ty, ctx, prefix) ==
    LET n == ty.name
    IN  IF n \in ctx.schema.scalars
        THEN [ctx |-> [ctx EXCEPT !.required.scalars[n] = TRUE],
              ty  |-> TypeTokens(ty.wrappers, n, <<>>)]
        ELSE IF n \in DEFAULT_SCALARS
        THEN [ctx |-> ctx, ty |-> TypeTokens(ty.wrappers, n, <<>>)]
        ELSE IF n \in ctx.schema.enums
        THEN [ctx |-> [ctx EXCEPT !.required.enums[n] = TRUE],
              ty  |-> TypeTokens(ty.wrappers, n, <<>>)]
        ELSE IF prefix = <<>>
        THEN [ctx |-> ctx, ty |-> TypeTokens(ty.wrappers, n, <<>>)]
        ELSE [ctx |-> ctx, ty |-> TypeTokens(ty.wrappers, "", prefix)]

\* ------------------------------------------------------------------------
\* shared.rs: the fields and the nested types of a selection
\* ------------------------------------------------------------------------

RECURSIVE FieldImplsFrom(_, _, _, _, _, _)
RECURSIVE ResponseFieldsFrom(_, _, _, _, _, _, _)
RECURSIVE maybe_expand_field(_, _, _, _)
RECURSIVE response_for_selection(_, _, _, _)

\* The ? on the result r of item i: the Err is returned, an Ok goes on with
\* the next item.
FieldImplsNext(fields, selection, prefix, i, acc, r) ==
    IF ~IsOk(r) THEN r
    ELSE FieldImplsFrom(fields, r.ctx, selection, prefix, i + 1, acc \o r.out)

\* The closure of field_impls_for_selection on a field: its schema field is
\* looked up and its type expanded under the prefix and the alias.
FieldImpl(fields, ctx, selected, prefix) ==
    LET name == selected.name
        k    == FindField(fields, name)
    IN  IF k = 0
        THEN Failed(ctx, Error("could not find field", name, "", <<>>))
        ELSE maybe_expand_field(ctx, inner_name_str(fields[k].type_), selected.fields,
                 Append(prefix, IF selected.alias # <<>> THEN selected.alias[1] ELSE name))

\* field_impls_for_selection from item i on; collect stops at the first Err.
FieldImplsFrom(fields, ctx, selection, prefix, i, acc) ==
    IF i > Len(selection) THEN Done(ctx, acc)
    ELSE IF selection[i].kind = "Field"
    THEN FieldImplsNext(fields, selection, prefix, i, acc,
                        FieldImpl(fields, ctx, selection[i], prefix))
    ELSE FieldImplsFrom(fields, ctx, selection, prefix, i + 1, acc)

field_impls_for_selection(fields, ctx, selection, prefix) ==
    FieldImplsFrom(fields, ctx, selection, prefix, 1, <<>>)

\* The tokens of a field of the response struct, with the context in which
\* its type was written.
RenderedField(schema_field, alias, ty) ==
    Done(ty.ctx, <<render_object_field(alias, ty.ty, schema_field.description,
                                       schema_field.deprecation,
                                       ty.ctx.deprecation_strategy)>>)

\* The closure of response_fields_for_selection on one item.
ResponseField(type_name, schema_fields, ctx, item, prefix) ==
    CASE item.kind = "Field" ->
           LET name  == item.name
               alias == IF item.alias # <<>> THEN item.alias[1] ELSE name
               k     == FindField(schema_fields, name)
           IN  IF k = 0
               THEN Failed(ctx, Error("Could not find field", name, type_name,
                                      FieldNames(schema_fields)))
               ELSE RenderedField(schema_fields[k], alias,
                        FieldType_to_rust(schema_fields[k].type_, ctx,
                                          Append(prefix, alias)))
      [] item.kind = "FragmentSpread" ->
           Done(require_fragment(ctx, item.name),
                <<[EmptyTokens EXCEPT
                      !.empty = FALSE, !.flatten = TRUE,
                      !.ident = to_snake_case(item.name),
                      !.ty = <<TypeTokens(<<>>, "", <<item.name>>)>>]>>)
      [] OTHER ->
           Failed(ctx, Error("unimplemented: inline fragment on object field",
                             <<>>, "", <<>>))

\* The filter and the collect on the result r of item i: an Err is returned,
\* empty tokens are left out.
ResponseFieldsNext(type_name, schema_fields, selection, prefix, i, acc, r) ==
    IF ~IsOk(r) THEN r
    ELSE ResponseFieldsFrom(type_name, schema_fields, r.ctx, selection, prefix, i + 1,
                            IF r.out[1].empty THEN acc ELSE acc \o r.out)

ResponseFieldsFrom(type_name, schema_fields, ctx, selection, prefix, i, acc) ==
    IF i > Len(selection) THEN Done(ctx, acc)
    ELSE ResponseFieldsNext(type_name, schema_fields, selection, prefix, i, acc,
             ResponseField(type_name, schema_fields, ctx, selection[i], prefix))

response_fields_for_selection(type_name, schema_fields, ctx, selection, prefix) ==
    ResponseFieldsFrom(type_name, schema_fields, ctx, selection, prefix, 1, <<>>)

\* QueryContext::maybe_expand_field: nothing for a scalar, the flag for an
\* enum, the struct of the nested selection for an object.
maybe_expand_field(ctx, ty, selection, prefix) ==
    IF ty \in ctx.schema.scalars \cup DEFAULT_SCALARS THEN Done(ctx, <<>>)
    ELSE IF ty \in ctx.schema.enums
    THEN Done([ctx EXCEPT !.required.enums[ty] = TRUE], <<>>)
    ELSE IF ty \in DOMAIN ctx.schema.objects
    THEN response_for_selection(ctx, ty, selection, prefix)
    ELSE Failed(ctx, Error("Unknown type", <<>>, ty, <<>>))

\* The struct of a selection, after its nested types.
SelectionStruct(impls, prefix, rf) ==
    IF ~IsOk(rf) THEN rf
    ELSE Done(rf.ctx, impls.out \o <<[name |-> prefix, fields |-> rf.out]>>)

SelectionFields(object, selection, prefix, impls) ==
    IF ~IsOk(impls) THEN impls
    ELSE SelectionStruct(impls, prefix,
             response_fields_for_selection(object, impls.ctx.schema.objects[object],
                                           impls.ctx, selection, prefix))

\* GqlObject::response_for_selection: the nested types of the selection, then
\* the struct of the selection itself, named by the prefix.
response_for_selection(ctx, object, selection, prefix) ==
    SelectionFields(object, selection, prefix,
        field_impls_for_selection(ctx.schema.objects[object], ctx, selection, prefix))

\* ------------------------------------------------------------------------
\* inputs.rs: GqlInput::to_rust
\* ------------------------------------------------------------------------

\* The order of str::cmp on the characters of a name: uppercase letters, then
\* "_", then lowercase letters.
CharCode(c) ==
    IF IsUpper(c) THEN CHOOSE i \in 1..Len(UpperChars) : UpperChars[i] = c
    ELSE IF c = "_" THEN Len(UpperChars) + 1
    ELSE Len(UpperChars) + 1 + CHOOSE i \in 1..Len(LowerChars) : LowerChars[i] = c

RECURSIVE NameLess(_, _)
NameLess(a, b) ==
    IF a = <<>> THEN b # <<>>
    ELSE IF b = <<>> THEN FALSE
    ELSE IF a[1] = b[1] THEN NameLess(Tail(a), Tail(b))
    ELSE CharCode(a[1]) < CharCode(b[1])

RECURSIVE SetToSeq(_)
SetToSeq(S) ==
    IF S = {} THEN <<>>
    ELSE LET x == CHOOSE y \in S : TRUE IN <<x>> \o SetToSeq(S \ {x})

\* The fields of a HashMap collected and sorted by name.
SortedNames(S) == SortSeq(SetToSeq(S), NameLess)

\* The field is boxed without looking at its wrappers.
BoxIfRecursive_AnyWrapper(self_name, field_type, ty) ==
    IF inner_name_str(field_type) # self_name
    THEN ty
    ELSE [ty EXCEPT !.wrappers = <<"Box">> \o @]

\* "If the type is recursive, we have to box it".
BoxIfRecursive(self_name, field_type, ty) ==
    IF is_indirected(field_type) \/ inner_name_str(field_type) # self_name
    THEN ty
    ELSE [ty EXCEPT !.wrappers = <<"Box">> \o @]

\* The closure of to_rust on one field: t is the field's type as written,
\* with the context in which it was written.
InputField(self_name, original_name, type_, t) ==
    Done([t.ctx EXCEPT !.required =
              require(t.ctx.schema, t.ctx.required, inner_name_str(type_))],
         <<[rename |-> field_rename_annotation(original_name,
                                               to_snake_case(original_name)),
            ident  |-> to_snake_case(original_name),
            ty     |-> BoxIfRecursive(self_name, type_, t.ty)]>>)

RECURSIVE InputFieldsFrom(_, _, _, _, _)

InputFieldsNext(self_name, names, i, acc, r) ==
    InputFieldsFrom(self_name, r.ctx, names, i + 1, acc \o r.out)

\* The fields from the i-th of the sorted ones on.
InputFieldsFrom(self_name, ctx, names, i, acc) ==
    IF i > Len(names) THEN Done(ctx, acc)
    ELSE InputFieldsNext(self_name, names, i, acc,
             InputField(self_name, names[i], ctx.schema.inputs[self_name][names[i]],
                 FieldType_to_rust(ctx.schema.inputs[self_name][names[i]], ctx, <<>>)))

InputStruct(self_name, fields) ==
    Done(fields.ctx, <<[name |-> self_name, fields |-> fields.out]>>)

GqlInput_to_rust(self_name, ctx) ==
    InputStruct(self_name,
        InputFieldsFrom(self_name, ctx,
            SortedNames(DOMAIN ctx.schema.inputs[self_name]), 1, <<>>))

\* ------------------------------------------------------------------------
\* The document, its operations and its fragments
\* ------------------------------------------------------------------------

\* A query::Definition.  An operation is used as the Operation made of it.
OperationDef(name, operation_type, selection, variables) ==
    [kind |-> "Operation", name |-> name, operation_type |-> operation_type,
     selection |-> selection, variables |-> variables, on |-> ""]

FragmentDef(name, on, selection) ==
    [kind |-> "Fragment", name |-> name, operation_type |-> "",
     selection |-> selection, variables |-> <<>>, on |-> on]

IsOperation(definition) == definition.kind = "Operation"

all_operations(document) == SelectSeq(document.definitions, IsOperation)

\* Without the or_else: the first operation named struct_name, else None.
select_operation_NoFallback(document, struct_name) ==
    LET ops == all_operations(document)
        found == {i \in 1..Len(ops) : ops[i].name = struct_name}
    IN  IF found # {} THEN <<ops[CHOOSE i \in found : \A j \in found : i <= j]>>
        ELSE <<>>

\* The first operation named struct_name, else the first operation; an
\* Option, None when the document has no operation.
select_operation(document, struct_name) ==
    LET ops == all_operations(document)
        found == {i \in 1..Len(ops) : ops[i].name = struct_name}
    IN  IF found # {}
        THEN <<ops[CHOOSE i \in found : \A j \in found : i <= j]>>
        ELSE IF Len(ops) > 0 THEN <<ops[1]>>
        ELSE <<>>

\* context.fragments after the loop over the definitions: a later fragment
\* of a name replaces an earlier one.
RECURSIVE InsertFragments(_, _, _)
InsertFragments(definitions, i, fragments) ==
    IF i > Len(definitions) THEN fragments
    ELSE IF definitions[i].kind = "Fragment"
    THEN InsertFragments(definitions, i + 1,
             (definitions[i].name :>
                 [name |-> definitions[i].name,
                  selection |-> definitions[i].selection,
                  on |-> definitions[i].on,
                  is_required |-> FALSE]) @@ fragments)
    ELSE InsertFragments(definitions, i + 1, fragments)

\* Operation::root_name and Operation::is_subscription.
root_name(operation) == operation.operation_type

is_subscription(operation) == operation.operation_type = "Subscription"

MULTIPLE_SUBSCRIPTION_FIELDS_ERROR ==
    Error("Multiple-field queries on the root subscription field are forbidden by the spec.",
          <<>>, "", <<>>)

\* GqlFragment::to_rust: the struct of the fragment's selection on its type.
GqlFragment_to_rust(fragment, ctx) ==
    IF fragment.on \in DOMAIN ctx.schema.objects
    THEN response_for_selection(ctx, fragment.on, fragment.selection, <<fragment.name>>)
    ELSE Failed(ctx, Error("panic: fragment on unknown type", fragment.name,
                           fragment.on, <<>>))

VariablesName == <<"V","a","r","i","a","b","l","e","s">>

ResponseDataName == <<"R","e","s","p","o","n","s","e","D","a","t","a">>

\* One variable: its type is required, and it is a field of the struct.
VariableField(v, t) ==
    Done([t.ctx EXCEPT !.required =
              require(t.ctx.schema, t.ctx.required, inner_name_str(v.ty))],
         <<[rename |-> field_rename_annotation(v.name, to_snake_case(v.name)),
            ident  |-> to_snake_case(v.name),
            ty     |-> t.ty]>>)

RECURSIVE VariablesFrom(_, _, _, _)

VariablesNext(variables, i, acc, r) ==
    VariablesFrom(variables, r.ctx, i + 1, acc \o r.out)

VariablesFrom(variables, ctx, i, acc) ==
    IF i > Len(variables) THEN Done(ctx, acc)
    ELSE VariablesNext(variables, i, acc,
             VariableField(variables[i], FieldType_to_rust(variables[i].ty, ctx, <<>>)))

VariablesStruct(prefix, multiple_operation, fields) ==
    Done(fields.ctx,
         [name   |-> IF multiple_operation THEN prefix \o VariablesName
                     ELSE VariablesName,
          fields |-> fields.out])

\* Operation::expand_variables: every variable's type is required, and the
\* variables struct has one field for each variable.
expand_variables(operation, ctx, prefix, multiple_operation) ==
    VariablesStruct(prefix, multiple_operation,
                    VariablesFrom(operation.variables, ctx, 1, <<>>))

\* ------------------------------------------------------------------------
\* codegen.rs: response_for_query
\* ------------------------------------------------------------------------

\* A filter that lets every type through, required or not.
RequiredOnly_All(flags) == DOMAIN flags

\* The filter_map of the enums and of the scalars: those whose flag is set.
RequiredOnly(flags) == {n \in DOMAIN flags : flags[n]}

RECURSIVE FragmentDefinitionsFrom(_, _, _, _)

FragmentDefinitionsNext(order, i, acc, r) ==
    IF ~IsOk(r) THEN r
    ELSE FragmentDefinitionsFrom(r.ctx, order, i + 1,
             Append(acc, [name |-> order[i], structs |-> r.out]))

\* The filter_map over context.fragments.values(), taken in the order the
\* map yields them: a fragment is rendered when its flag is set as the
\* iteration reaches it; collect stops at the first Err.
FragmentDefinitionsFrom(ctx, order, i, acc) ==
    IF i > Len(order) THEN Done(ctx, acc)
    ELSE IF ctx.fragments[order[i]].is_required
    THEN FragmentDefinitionsNext(order, i, acc,
             GqlFragment_to_rust(ctx.fragments[order[i]], ctx))
    ELSE FragmentDefinitionsFrom(ctx, order, i + 1, acc)

RECURSIVE InputDefinitionsFrom(_, _, _, _)

InputDefinitionsNext(order, i, acc, r) ==
    InputDefinitionsFrom(r.ctx, order, i + 1, acc \o r.out)

\* The filter_map over schema.inputs.values().  An input object whose flag is
\* set has the types of its fields flagged already (GqlInput::require), so
\* that the order of the map changes the order of the definitions only; they
\* are taken in one order.
InputDefinitionsFrom(ctx, order, i, acc) ==
    IF i > Len(order) THEN Done(ctx, acc)
    ELSE IF ctx.required.inputs[order[i]]
    THEN InputDefinitionsNext(order, i, acc, GqlInput_to_rust(order[i], ctx))
    ELSE InputDefinitionsFrom(ctx, order, i + 1, acc)

\* What response_for_query returns: "Ok" with the tokens of the module,
\* "Err" with the error, or "Panic"; ctx is the context as the call leaves it.
NoTokens ==
    [scalar_definitions |-> {}, input_object_definitions |-> <<>>,
     enum_definitions |-> {}, fragment_definitions |-> <<>>,
     definitions |-> <<>>,
     variables_struct |-> [name |-> <<>>, fields |-> <<>>],
     response_data_struct |-> [name |-> <<>>, fields |-> <<>>]]

Returned(outcome, err, ctx, tokens) ==
    [outcome |-> outcome, err |-> err, ctx |-> ctx, tokens |-> tokens]

\* The quote! at the end: the scalars and the enums whose flag is set by then,
\* and the definitions made on the way.
ModuleTokens(operation, multiple_operation, impls, fields, fragments, variables, inputs) ==
    Returned("Ok", NoError, inputs.ctx,
        [scalar_definitions       |-> RequiredOnly(inputs.ctx.required.scalars),
         input_object_definitions |-> inputs.out,
         enum_definitions         |-> RequiredOnly(inputs.ctx.required.enums),
         fragment_definitions     |-> fragments.out,
         definitions              |-> impls.out,
         variables_struct         |-> variables.out,
         response_data_struct     |->
             [name   |-> IF multiple_operation
                         THEN operation.name \o ResponseDataName
                         ELSE ResponseDataName,
              fields |-> fields.out]])

\* From the variables struct on.
AfterVariables(operation, multiple_operation, impls, fields, fragments, variables) ==
    ModuleTokens(operation, multiple_operation, impls, fields, fragments, variables,
        InputDefinitionsFrom(variables.ctx,
            SetToSeq(DOMAIN variables.ctx.schema.inputs), 1, <<>>))

\* From the ? on the fragment definitions on.
AfterFragments(operation, multiple_operation, impls, fields, fragments) ==
    IF ~IsOk(fragments)
    THEN Returned("Err", fragments.err, fragments.ctx, NoTokens)
    ELSE AfterVariables(operation, multiple_operation, impls, fields, fragments,
             expand_variables(operation, fragments.ctx, operation.name,
                              multiple_operation))

\* From the ? on the fields of the response struct on.
AfterFields(operation, multiple_operation, fragment_order, impls, fields) ==
    IF ~IsOk(fields) THEN Returned("Err", fields.err, fields.ctx, NoTokens)
    ELSE AfterFragments(operation, multiple_operation, impls, fields,
             FragmentDefinitionsFrom(fields.ctx, fragment_order, 1, <<>>))

\* From the ? on the nested types on.
AfterImpls(operation, multiple_operation, fragment_order, impls) ==
    IF ~IsOk(impls) THEN Returned("Err", impls.err, impls.ctx, NoTokens)
    ELSE AfterFields(operation, multiple_operation, fragment_order, impls,
             response_fields_for_selection(root_name(operation),
                 impls.ctx.schema.objects[root_name(operation)], impls.ctx,
                 operation.selection, <<operation.name>>))

ResponseFromRoot_NoCheck(ctx, operation, multiple_operation, fragment_order) ==
    AfterImpls(operation, multiple_operation, fragment_order,
        field_impls_for_selection(ctx.schema.objects[root_name(operation)], ctx,
                                  operation.selection, <<operation.name>>))

\* The function from the check of a subscription's selection on.
ResponseFromRoot(ctx, operation, multiple_operation, fragment_order) ==
    IF is_subscription(operation) /\ Len(operation.selection) > 1
    THEN Returned("Err", MULTIPLE_SUBSCRIPTION_FIELDS_ERROR, ctx, NoTokens)
    ELSE AfterImpls(operation, multiple_operation, fragment_order,
             field_impls_for_selection(ctx.schema.objects[root_name(operation)], ctx,
                                       operation.selection, <<operation.name>>))

\* schema and required are the clone the caller passes; fragment_order is
\* the order in which context.fragments yields its values.
ResponseInContext(ctx, operation, multiple_operation, fragment_order) ==
    IF root_name(operation) \notin DOMAIN ctx.schema.objects
    THEN Returned("Panic", Error("panic: operation type not in schema", <<>>,
                                 root_name(operation), <<>>), ctx, NoTokens)
    ELSE ResponseFromRoot(ctx, operation, multiple_operation, fragment_order)

response_for_query(sch, required, document, operation, strategy, multiple_operation, fragment_order) ==
    ResponseInContext([schema |-> sch,
                       deprecation_strategy |-> strategy,
                       required |-> required,
                       fragments |-> InsertFragments(document.definitions, 1, <<>>)],
                      operation, multiple_operation, fragment_order)

\* The orders in which a map of these keys may yield its values.
Orders(keys) ==
    {o \in [1..Cardinality(keys) -> keys] : \A a, b \in DOMAIN o : o[a] = o[b] => a = b}

FragmentNames(document) ==
    {document.definitions[i].name :
        i \in {j \in 1..Len(document.definitions) : document.definitions[j].kind = "Fragment"}}

\* ------------------------------------------------------------------------
\* lib.rs: generate_module_token_stream
\* ------------------------------------------------------------------------

\* With a name that matches no operation, every operation is used.
OperationsToGenerate_AllWhenUnmatched(document, opts) ==
    IF opts.operation_name # <<>>
       /\ \E i \in 1..Len(all_operations(document)) :
              all_operations(document)[i].name = opts.operation_name[1]
    THEN select_operation(document, opts.operation_name[1])
    ELSE all_operations(document)

\* "Determine which operation we are generating code for."
OperationsToGenerate(document, opts) ==
    IF opts.operation_name # <<>>
    THEN LET op == select_operation(document, opts.operation_name[1])
         IN  IF op # <<>> THEN <<op[1]>> ELSE all_operations(document)
    ELSE all_operations(document)

\* DeprecationStrategy::default().
DefaultStrategy == "Warn"

StrategyOf(opts) ==
    IF opts.deprecation_strategy # <<>> THEN opts.deprecation_strategy[1]
    ELSE DefaultStrategy

OPERATION_NAME == <<"O","P","E","R","A","T","I","O","N","_","N","A","M","E">>

\* build_query_struct_token_stream: the tokens of one operation inside the
\* module, and the impl of GraphQLQuery outside of it.
build_query_struct_token_stream(struct_name, schema_output, operation_name, multiple_operations) ==
    [schema_token |->
        [constant |-> [name |-> OPERATION_NAME, value |-> operation_name],
         schema_output |-> schema_output],
     trait_token |->
        [struct_name  |-> IF struct_name # <<>> THEN struct_name[1] ELSE operation_name,
         Variables    |-> IF multiple_operations THEN operation_name \o VariablesName
                          ELSE VariablesName,
         ResponseData |-> IF multiple_operations THEN operation_name \o ResponseDataName
                          ELSE ResponseDataName]]

\* build_module_token_stream and merge_with_common_token_stream: one module
\* that holds the tokens of every operation, one after the other.
build_module_token_stream(module_name, struct_name, outputs) ==
    LET multiple_operations == Len(outputs) > 1
        built == [i \in 1..Len(outputs) |->
                    build_query_struct_token_stream(struct_name,
                        outputs[i].schema_output, outputs[i].operation_name,
                        multiple_operations)]
    IN  [module_name          |-> module_name,
         schema_token_streams |-> [i \in 1..Len(outputs) |-> built[i].schema_token],
         trait_token_streams  |-> [i \in 1..Len(outputs) |-> built[i].trait_token]]

NoModule == [module_name |-> <<>>, schema_token_streams |-> <<>>, trait_token_streams |-> <<>>]

\* The operations are chosen once the query is parsed.
SelectOperations ==
    /\ pc = "start"
    /\ operations' = OperationsToGenerate(query, options)
    /\ pc' = "module_name"
    /\ UNCHANGED <<requireVars, cacheVars, query, options, schema_and_operations, context, result>>

\* module_name: the option, else the operation name, which is unwrapped.
ModuleName ==
    /\ pc = "module_name"
    /\ pc' = IF options.module_name = <<>> /\ options.operation_name = <<>>
             THEN "panicked" ELSE "compile"
    /\ UNCHANGED <<requireVars, cacheVars, query, options, operations, schema_and_operations,
                   context, result>>

\* What the turn of the loop does with what response_for_query returned.
Compiled(operation, r) ==
    /\ context' = [outcome   |-> r.outcome,
                   err       |-> r.err,
                   required  |-> r.ctx.required,
                   fragments |-> [n \in DOMAIN r.ctx.fragments |->
                                    r.ctx.fragments[n].is_required]]
    /\ CASE r.outcome = "Ok" ->
              /\ schema_and_operations' =
                    Append(schema_and_operations,
                           [schema_output  |-> r.tokens,
                            operation_name |-> operation.name])
              /\ UNCHANGED <<pc, result>>
         [] r.outcome = "Err" ->
              /\ pc' = "failed"
              /\ result' = <<[outcome |-> "Err", err |-> r.err, module |-> NoModule]>>
              /\ UNCHANGED schema_and_operations
         [] OTHER ->
              /\ pc' = "panicked"
              /\ UNCHANGED <<schema_and_operations, result>>

\* One turn of the loop over the operations: response_for_query on a clone
\* of the schema, whose flags are those of the schema.
CompileOperation ==
    /\ pc = "compile"
    /\ Len(schema_and_operations) < Len(operations)
    /\ \E fragment_order \in Orders(FragmentNames(query)) :
          \E r \in {response_for_query(schema, is_required, query,
                        operations[Len(schema_and_operations) + 1],
                        StrategyOf(options), Len(operations) > 1, fragment_order)} :
              Compiled(operations[Len(schema_and_operations) + 1], r)
    /\ UNCHANGED <<requireVars, cacheVars, query, options, operations>>

\* After the loop the module is built and returned.
BuildModule ==
    /\ pc = "compile"
    /\ Len(schema_and_operations) = Len(operations)
    /\ LET name == IF options.module_name # <<>> THEN options.module_name[1]
                   ELSE options.operation_name[1]
       IN  result' = <<[outcome |-> "Ok", err |-> NoError,
                        module  |-> build_module_token_stream(to_snake_case(name),
                                        options.struct_name, schema_and_operations)]>>
    /\ pc' = "done"
    /\ UNCHANGED <<requireVars, cacheVars, query, options, operations, schema_and_operations, context>>

NextModule ==
    \/ SelectOperations
    \/ ModuleName
    \/ CompileOperation
    \/ BuildModule

\* --- the schema and the documents of the checks -------------------------

Current == [kind |-> "Current", reason |-> <<>>]

Deprecated(reason) == [kind |-> "Deprecated", reason |-> reason]

SchemaField(name, type_, deprecation) ==
    [name |-> name, type_ |-> type_, deprecation |-> deprecation, description |-> <<>>]

n_id == <<"i","d">>

n_on == <<"o","n">>

n_as == <<"a","s">>

n_old == <<"o","l","d">>

n_pet == <<"p","e","t">>

n_mood == <<"m","o","o","d">>

n_kin == <<"k","i","n">>

n_zz == <<"z","z">>

RootFields ==
    << SchemaField(n_id, Named("ID"), Current),
       SchemaField(n_on, Optional(Named("Date")), Current),
       SchemaField(n_as, Named("Kind"), Current),
       SchemaField(n_old, Named("Mood"), Deprecated(<<"R">>)),
       SchemaField(n_pet, Optional(Named("Pet")), Current) >>

PetFields ==
    << SchemaField(n_id, Named("ID"), Current),
       SchemaField(n_mood, Named("Mood"), Current),
       SchemaField(n_kin, Vector(Named("Pet")), Current) >>

FilterFields ==
    (<<"k","i","n","d">> :> Named("Kind")) @@
    (<<"n","o","t">> :> Named("Filter")) @@
    (<<"a","n","y","O","f">> :> Vector(Named("Filter"))) @@
    (<<"p","a","g","e">> :> Optional(Named("Page")))

PageFields ==
    (<<"f","r","o","m">> :> Named("Date")) @@
    (<<"f","i","l","t","e","r">> :> Named("Filter"))

SortFields ==
    (<<"r","a","n","k">> :> Named("Rank")) @@
    (<<"r","a","w">> :> Named("Blob"))

RootObjects == {"Query", "Mutation", "Subscription"}

SchemaWith(objects) ==
    [objects |-> [o \in objects |-> IF o = "Pet" THEN PetFields ELSE RootFields],
     enums   |-> {"Kind", "Mood", "Rank"},
     scalars |-> {"Date", "Blob"},
     inputs  |-> [i \in {"Filter", "Page", "Sort"} |->
                    CASE i = "Filter" -> FilterFields
                      [] i = "Page" -> PageFields
                      [] OTHER -> SortFields]]

\* A schema with the three root types, and one that has no subscriptions.
FullSchema == SchemaWith(RootObjects \cup {"Pet"})

QueryOnlySchema == SchemaWith({"Query", "Mutation", "Pet"})

f_F == <<"F">>

f_G == <<"G">>

f_H == <<"H">>

\* fragment F on Query { as ...G }, G on Query { on }, H on Pet { mood }
Fragments ==
    << FragmentDef(f_F, "Query", <<Field(n_as, <<>>, <<>>), FragmentSpread(f_G)>>),
       FragmentDef(f_G, "Query", <<Field(n_on, <<>>, <<>>)>>),
       FragmentDef(f_H, "Pet", <<Field(n_mood, <<>>, <<>>)>>) >>

\* What an operation may select at its root.
RootItems ==
    { Field(n_id, <<>>, <<>>),
      Field(n_on, <<>>, <<>>),
      Field(n_as, <<>>, <<>>),
      Field(n_old, <<>>, <<>>),
      Field(n_pet, <<>>, <<Field(n_mood, <<>>, <<>>)>>),
      Field(n_pet, <<<<"m","y","P","e","t">>>>, <<FragmentSpread(f_H)>>),
      FragmentSpread(f_F),
      Field(n_zz, <<>>, <<>>),
      Field(n_pet, <<>>, <<Field(n_zz, <<>>, <<>>)>>),
      InlineFragment }

MaxSel == 2

SeqsUpTo(S, n) == UNION {[1..k -> S] : k \in 0..n}

Selections == SeqsUpTo(RootItems, MaxSel)

Variable(name, ty) == [name |-> name, ty |-> ty]

\* The variable lists of an operation.
VariableLists ==
    { <<Variable(<<"f">>, Optional(Named("Filter")))>>,
      <<Variable(<<"s","o","r","t","B","y">>, Vector(Named("Sort"))),
        Variable(<<"k">>, Named("Kind"))>> }

n_A == <<"A">>

n_B == <<"B">>

n_C == <<"C">>

n_D == <<"D">>

NoOptions ==
    [operation_name |-> <<>>, struct_name |-> <<>>, module_name |-> <<>>,
     deprecation_strategy |-> <<>>]

RequireIdle ==
    /\ is_required = NoneRequired(schema)
    /\ stack = <<>>
    /\ steps = 0
    /\ last_call = NoCall

ModuleStart ==
    /\ pc = "start"
    /\ operations = <<>>
    /\ schema_and_operations = <<>>
    /\ context = NotCalled(is_required)
    /\ result = <<>>
    /\ CacheIdle

\* One operation named A, of any kind, selection and variables, with the
\* three fragments, generated by name.
Init ==
    /\ schema \in {FullSchema, QueryOnlySchema}
    /\ RequireIdle
    /\ \E t \in RootObjects, sel \in Selections, v \in VariableLists :
          query = [definitions |-> <<OperationDef(n_A, t, sel, v)>> \o Fragments]
    /\ options = [NoOptions EXCEPT !.operation_name = <<n_A>>]
    /\ ModuleStart

Spec == Init /\ [][NextModule]_vars

\* ------------------------------------------------------------------------
\* Documents of several operations
\* ------------------------------------------------------------------------

n_a == <<"a">>

MaxOps == 3

\* The operations a document may have, each with its selection and its
\* variables: A and B are queries that share an enum, an input object and a
\* scalar, C is a mutation.
OperationNamed(name) ==
    CASE name = n_A ->
           OperationDef(n_A, "Query",
               <<Field(n_as, <<>>, <<>>), FragmentSpread(f_G)>>,
               <<Variable(<<"f">>, Optional(Named("Filter")))>>)
      [] name = n_B ->
           OperationDef(n_B, "Query",
               <<Field(n_as, <<>>, <<>>), FragmentSpread(f_G)>>,
               <<Variable(<<"f">>, Named("Filter"))>>)
      [] OTHER ->
           OperationDef(n_C, "Mutation",
               <<Field(n_pet, <<>>, <<Field(n_mood, <<>>, <<>>)>>)>>, <<>>)

\* A fragment, then up to MaxOps operations, then the other fragments.
Documents ==
    { [definitions |-> <<Fragments[1]>>
                       \o [i \in 1..Len(names) |-> OperationNamed(names[i])]
                       \o SubSeq(Fragments, 2, Len(Fragments))] :
        names \in SeqsUpTo({n_A, n_B, n_C}, MaxOps) }

\* Any of the documents, and an operation name that is not given, that is the
\* name of one of the operations or that is the name of none of them; with or
\* without a module name.
InitOps ==
    /\ schema = FullSchema
    /\ RequireIdle
    /\ query \in Documents
    /\ \E o \in {<<>>, <<n_A>>, <<n_B>>, <<n_C>>, <<n_D>>, <<n_a>>},
          m \in {<<>>, <<<<"m">>>>} :
          options = [NoOptions EXCEPT !.operation_name = o, !.module_name = m]
    /\ ModuleStart

SpecOps == InitOps /\ [][NextModule]_vars

\* ------------------------------------------------------------------------
\* Fields of any name, and input objects with fields of any type
\* ------------------------------------------------------------------------

MaxName == 3

\* The names of up to MaxName characters that have a letter: lower case and
\* upper case, with underscores, the keyword "as" among them.
FieldNamesUpTo ==
    {n \in SeqsUpTo({"a", "s", "S", "_"}, MaxName) : \E i \in DOMAIN n : n[i] # "_"}

\* A schema whose Query has one field, of the given name and deprecation, and
\* whose input object In has one field of that name.
RenderSchema(name, deprecation) ==
    [objects |-> [o \in {"Query"} |-> <<SchemaField(name, Named("Kind"), deprecation)>>],
     enums   |-> {"Kind"},
     scalars |-> {"Date"},
     inputs  |-> [i \in {"In"} |-> (name :> Named("Int"))]]

\* query A($v: In!) { name } or { alias: name }, under any strategy.
InitRender ==
    /\ \E name \in FieldNamesUpTo,
          deprecation \in {Current, Deprecated(<<>>), Deprecated(<<"R">>)},
          alias \in {<<>>, <<<<"s">>>>, <<<<"a", "S">>>>} :
          /\ schema = RenderSchema(name, deprecation)
          /\ query = [definitions |->
                        <<OperationDef(n_A, "Query", <<Field(name, alias, <<>>)>>,
                                       <<Variable(<<"v">>, Named("In"))>>)>>]
    /\ RequireIdle
    /\ \E d \in {<<>>, <<"Allow">>, <<"Warn">>, <<"Deny">>} :
          options = [NoOptions EXCEPT !.operation_name = <<n_A>>,
                                      !.deprecation_strategy = d]
    /\ ModuleStart

SpecRender == InitRender /\ [][NextModule]_vars

MaxWrap == 2

\* The lists and options around a type, outermost first; an option is not
\* put around an option.
Wrappers ==
    {w \in SeqsUpTo({"Optional", "Vector"}, MaxWrap) :
        \A i \in 1..(Len(w) - 1) : ~(w[i] = "Optional" /\ w[i + 1] = "Optional")}

InputTypes ==
    {[wrappers |-> w, name |-> n] : w \in Wrappers, n \in {"In", "Other", "Int", "Kind"}}

\* A schema whose input object In has two fields of any type, and whose input
\* object Other has one field.
InputSchema(a, b, c) ==
    [objects |-> [o \in {"Query"} |-> <<SchemaField(n_id, Named("ID"), Current)>>],
     enums   |-> {"Kind"},
     scalars |-> {"Date"},
     inputs  |-> [i \in {"In", "Other"} |->
                    IF i = "In" THEN (<<"a">> :> a) @@ (<<"b">> :> b)
                    ELSE (<<"c">> :> c)]]

\* query A($v: In!) { id }
InitInput ==
    /\ \E a, b \in InputTypes,
          c \in {Named("In"), Optional(Named("In")), Named("Other"),
                 Vector(Named("Other")), Named("Int")} :
          schema = InputSchema(a, b, c)
    /\ query = [definitions |->
                  <<OperationDef(n_A, "Query", <<Field(n_id, <<>>, <<>>)>>,
                                 <<Variable(<<"v">>, Named("In"))>>)>>]
    /\ RequireIdle
    /\ options = [NoOptions EXCEPT !.operation_name = <<n_A>>]
    /\ ModuleStart

SpecInput == InitInput /\ [][NextModule]_vars

\* ------------------------------------------------------------------------
\* lib.rs: the caches, under concurrent calls
\* ------------------------------------------------------------------------

MaxThreads == 2

Threads == 1..MaxThreads

\* What read_file may find in a file, at any time: two texts that parse and
\* one that does not.
FileContents == {"x", "y", "bad"}

Parses(text) == text # "bad"

\* The call t is at the block of the cache c: before lock(), holding the
\* lock, or in the Vacant arm.
AtCache(t, c, at) == invocations[t].stage = c /\ invocations[t].at = at

PathOf(t, c) ==
    IF c = "QUERY_CACHE" THEN invocations[t].query_path ELSE invocations[t].schema_path

\* After the block of the query cache comes that of the schema cache, then
\* the parse of the schema.
StageAfter(c) == IF c = "QUERY_CACHE" THEN "SCHEMA_CACHE" ELSE "parse_schema"

\* The guard is dropped at the end of the block, and when ? returns.
Unlocked(t, c) == [caches EXCEPT ![c].lock = @ \ {t}]

\* lock() is taken without waiting for the holder.
Lock_NoMutex(t, c) ==
    /\ AtCache(t, c, "unlocked")
    /\ caches' = [caches EXCEPT ![c].lock = @ \cup {t}]
    /\ invocations' = [invocations EXCEPT ![t].at = "locked"]
    /\ UNCHANGED <<requireVars, moduleVars, inserted>>

\* CACHE.lock(): the call waits until the lock is free and holds it.
Lock(t, c) ==
    /\ AtCache(t, c, "unlocked")
    /\ caches[c].lock = {}
    /\ caches' = [caches EXCEPT ![c].lock = {t}]
    /\ invocations' = [invocations EXCEPT ![t].at = "locked"]
    /\ UNCHANGED <<requireVars, moduleVars, inserted>>

\* Entry::Occupied: the clone of the entry is what the call works from.
Occupied(t, c) ==
    /\ AtCache(t, c, "locked")
    /\ caches[c].map[PathOf(t, c)] # <<>>
    /\ invocations' = [invocations EXCEPT ![t].got[c] = caches[c].map[PathOf(t, c)],
                                          ![t].stage = StageAfter(c),
                                          ![t].at = "unlocked"]
    /\ caches' = Unlocked(t, c)
    /\ UNCHANGED <<requireVars, moduleVars, inserted>>

\* Entry::Vacant.
Vacant(t, c) ==
    /\ AtCache(t, c, "locked")
    /\ caches[c].map[PathOf(t, c)] = <<>>
    /\ invocations' = [invocations EXCEPT ![t].at = "vacant"]
    /\ UNCHANGED <<requireVars, moduleVars, caches, inserted>>

\* read_file(v.key())? on a file that cannot be read, and for the query
\* parse_query(&query_string)? on a text that does not parse: the call
\* returns the error and nothing is inserted.
FillFails(t, c) ==
    /\ AtCache(t, c, "vacant")
    /\ invocations' = [invocations EXCEPT ![t].stage = "failed", ![t].failed_at = c,
                                          ![t].at = "unlocked"]
    /\ caches' = Unlocked(t, c)
    /\ UNCHANGED <<requireVars, moduleVars, inserted>>

\* v.insert(..): the text read (and, for the query, parsed) is inserted and
\* its clone is what the call works from.
Insert(t, c) ==
    /\ AtCache(t, c, "vacant")
    /\ \E text \in FileContents :
          /\ c = "QUERY_CACHE" => Parses(text)
          /\ caches' = [Unlocked(t, c) EXCEPT ![c].map[PathOf(t, c)] = <<text>>]
          /\ inserted' = [inserted EXCEPT ![c][PathOf(t, c)] = Append(@, text)]
          /\ invocations' = [invocations EXCEPT ![t].got[c] = <<text>>,
                                                ![t].wrote = @ \cup {c},
                                                ![t].stage = StageAfter(c),
                                                ![t].at = "unlocked"]
    /\ UNCHANGED <<requireVars, moduleVars>>

\* parse_schema / serde_json::from_str on the schema string, after the block
\* of the schema cache.
ParseSchema(t) ==
    /\ AtCache(t, "parse_schema", "unlocked")
    /\ invocations' =
          [invocations EXCEPT
              ![t].stage = IF Parses(invocations[t].got["SCHEMA_CACHE"][1])
                           THEN "parsed" ELSE "failed",
              ![t].failed_at = IF Parses(invocations[t].got["SCHEMA_CACHE"][1])
                               THEN @ ELSE "parse_schema"]
    /\ UNCHANGED <<requireVars, moduleVars, caches, inserted>>

NextCache ==
    \/ \E t \in Threads, c \in CacheNames : Lock(t, c)
    \/ \E t \in Threads, c \in CacheNames : Occupied(t, c)
    \/ \E t \in Threads, c \in CacheNames : Vacant(t, c)
    \/ \E t \in Threads, c \in CacheNames : FillFails(t, c)
    \/ \E t \in Threads, c \in CacheNames : Insert(t, c)
    \/ \E t \in Threads : ParseSchema(t)

\* A call before the block of the query cache.
Invocation(query_path, schema_path) ==
    [query_path |-> query_path, schema_path |-> schema_path,
     stage |-> "QUERY_CACHE", at |-> "unlocked",
     got |-> [c \in CacheNames |-> <<>>], wrote |-> {}, failed_at |-> ""]

\* MaxThreads calls, each with a query path and a schema path, and the caches
\* empty.
InitCache ==
    /\ schema = FullSchema
    /\ RequireIdle
    /\ query = [definitions |-> <<>>]
    /\ options = NoOptions
    /\ pc = "idle"
    /\ operations = <<>>
    /\ schema_and_operations = <<>>
    /\ context = NotCalled(is_required)
    /\ result = <<>>
    /\ caches = [c \in CacheNames |-> [lock |-> {}, map |-> [p \in Paths |-> <<>>]]]
    /\ inserted = [c \in CacheNames |-> [p \in Paths |-> <<>>]]
    /\ \E paths \in [Threads -> Paths \X Paths] :
          invocations = [t \in Threads |-> Invocation(paths[t][1], paths[t][2])]

SpecCache == InitCache /\ [][NextCache]_vars

\* ------------------------------------------------------------------------
\* Properties of the require calls
\* ------------------------------------------------------------------------

\* One body per field and one return, for each input object of the schema.
WorkOf(i) == 1 + Cardinality(DOMAIN schema.inputs[i])

RECURSIVE WorkSum(_)
WorkSum(S) ==
    IF S = {} THEN 0
    ELSE LET x == CHOOSE y \in S : TRUE IN WorkOf(x) + WorkSum(S \ {x})

WorkBound == WorkSum(DOMAIN schema.inputs)

FieldTargets(i) ==
    {inner_name_str(schema.inputs[i][f]) : f \in DOMAIN schema.inputs[i]}

\* Whether the type named t carries a set flag (a default scalar carries none).
Marked(req, t) ==
    \/ t \in DEFAULT_SCALARS
    \/ t \in schema.enums /\ req.enums[t]
    \/ t \in schema.scalars /\ req.scalars[t]
    \/ t \in DOMAIN schema.inputs /\ req.inputs[t]

\* C5: a require call terminates on every graph of input objects, cyclic
\* ones included: the calls in progress are of distinct input objects, the
\* work since the outermost call never passes one body per field and one
\* return per input object, and a call in progress can always go on.  It is
\* idempotent: require on an input object whose flag is set returns at once
\* and changes no flag.
C5_RequireTerminatesIdempotent ==
    /\ [](/\ steps <= WorkBound
          /\ Len(stack) <= Cardinality(DOMAIN schema.inputs)
          /\ \A a, b \in 1..Len(stack) : stack[a].input = stack[b].input => a = b
          /\ stack # <<>> => ENABLED RequireStep)
    /\ [][\A t \in DOMAIN schema.inputs :
            (RequireCall(t) /\ is_required.inputs[t])
                => (is_required' = is_required /\ stack' = <<>>)]_vars

\* A require call on an input object that lies on a cycle and was already
\* required has returned.
C5_Witness ==
    /\ stack = <<>>
    /\ last_call.was_required
    /\ \E u \in DOMAIN schema.inputs :
          /\ last_call.target \in FieldTargets(u)
          /\ u \in FieldTargets(last_call.target)

\* C6: once the require calls have returned, every field of a required input
\* object names a required type, and no step clears a flag.
C6_RequiredClosedMonotone ==
    /\ [](stack = <<>> =>
            \A i \in DOMAIN schema.inputs :
                is_required.inputs[i] =>
                    \A t \in FieldTargets(i) : Marked(is_required, t))
    /\ [][\A t \in RequiredTypes : Marked(is_required, t) => Marked(is_required', t)]_vars

\* A require call has returned after marking an input object, a second one
\* named by a field of the first, and the enum a field of the second names.
C6_Witness ==
    /\ stack = <<>>
    /\ steps > 0
    /\ \E i, j \in DOMAIN schema.inputs :
          /\ i # j
          /\ last_call.target = i
          /\ ~last_call.was_required
          /\ j \in FieldTargets(i)
          /\ "E" \in FieldTargets(j)
          /\ is_required.inputs[i] /\ is_required.inputs[j] /\ is_required.enums["E"]


\* ------------------------------------------------------------------------
\* What an operation reaches, by the definitions of the schema and of the
\* document alone
\* ------------------------------------------------------------------------

RECURSIVE SpreadsIn(_)

\* The fragments spread in a selection, at any depth.
SpreadsIn(selection) ==
    UNION { CASE selection[i].kind = "FragmentSpread" -> {selection[i].name}
              [] selection[i].kind = "Field" -> SpreadsIn(selection[i].fields)
              [] OTHER -> {} : i \in 1..Len(selection) }

FragmentOf(document, name) ==
    CHOOSE d \in {document.definitions[i] : i \in 1..Len(document.definitions)} :
        d.kind = "Fragment" /\ d.name = name

RECURSIVE SpreadClosure(_, _)

SpreadClosure(document, names) ==
    LET known == names \cap FragmentNames(document)
        more  == known \cup UNION {SpreadsIn(FragmentOf(document, n).selection) :
                                      n \in known}
    IN  IF more \cap FragmentNames(document) = known THEN known
        ELSE SpreadClosure(document, more)

\* The fragments of the document an operation reaches.
ReachedFragments(document, operation) ==
    SpreadClosure(document, SpreadsIn(operation.selection))

RECURSIVE TypesSelected(_, _, _)

\* The named types of the fields a selection on an object selects, at any
\* depth.
TypesSelected(sch, object, selection) ==
    IF object \notin DOMAIN sch.objects THEN {}
    ELSE UNION { IF selection[i].kind = "Field"
                    /\ FindField(sch.objects[object], selection[i].name) # 0
                 THEN LET ty == inner_name_str(
                                   sch.objects[object][FindField(sch.objects[object],
                                                           selection[i].name)].type_)
                      IN  {ty} \cup TypesSelected(sch, ty, selection[i].fields)
                 ELSE {} : i \in 1..Len(selection) }

RECURSIVE InputClosure(_, _)

\* With an input object, the named types of its fields.
InputClosure(sch, types) ==
    LET more == types \cup
                UNION { {inner_name_str(sch.inputs[t][f]) : f \in DOMAIN sch.inputs[t]} :
                          t \in types \cap DOMAIN sch.inputs }
    IN  IF more = types THEN types ELSE InputClosure(sch, more)

\* The named types an operation reaches: through its selection, through the
\* selections of the fragments it reaches, and through its variables.
ReachedTypes(sch, document, operation) ==
    InputClosure(sch,
        TypesSelected(sch, root_name(operation), operation.selection)
        \cup UNION { TypesSelected(sch, FragmentOf(document, n).on,
                                   FragmentOf(document, n).selection) :
                       n \in ReachedFragments(document, operation) }
        \cup { inner_name_str(operation.variables[i].ty) :
                 i \in 1..Len(operation.variables) })

NamesOf(definitions) == {definitions[i].name : i \in 1..Len(definitions)}

\* The definitions of the k-th output are of types and of fragments that the
\* k-th operation reaches.
Minimal(k) ==
    LET out == schema_and_operations[k].schema_output
        reached == ReachedTypes(schema, query, operations[k])
    IN  /\ out.scalar_definitions \subseteq reached \cap schema.scalars
        /\ out.enum_definitions \subseteq reached \cap schema.enums
        /\ NamesOf(out.input_object_definitions) \subseteq reached \cap DOMAIN schema.inputs
        /\ NamesOf(out.fragment_definitions)
               \subseteq ReachedFragments(query, operations[k])

\* C1: in the output of response_for_query for an operation, every scalar,
\* enum, input object and fragment definition is of a type or of a fragment
\* that the operation reaches from its selection, from the fragments it
\* spreads or from its variables and the fields of their input objects.
C1_Minimality ==
    \A k \in 1..Len(schema_and_operations) : Minimal(k)

\* An output with a definition of each of the four kinds, in which a scalar,
\* an enum, an input object and a fragment of the schema and of the document
\* are left out.
C1_Witness ==
    /\ Len(schema_and_operations) = 1
    /\ LET out == schema_and_operations[1].schema_output
       IN  /\ out.scalar_definitions \notin {{}, schema.scalars}
           /\ out.enum_definitions \notin {{}, schema.enums}
           /\ NamesOf(out.input_object_definitions) \notin {{}, DOMAIN schema.inputs}
           /\ NamesOf(out.fragment_definitions) \notin {{}, FragmentNames(query)}

\* ------------------------------------------------------------------------
\* The check of a subscription's selection
\* ------------------------------------------------------------------------

\* The operation of the last call of response_for_query.
LastCompiled ==
    operations[IF context.outcome = "Ok" THEN Len(schema_and_operations)
               ELSE Len(schema_and_operations) + 1]

MultipleSubscriptionFields(operation) ==
    is_subscription(operation) /\ Len(operation.selection) > 1

\* The call set no flag of a type or of a fragment and gave no definition.
NothingSynthesized ==
    /\ context.required = is_required
    /\ \A n \in DOMAIN context.fragments : ~context.fragments[n]
    /\ context.outcome # "Ok"

\* C4: response_for_query on a subscription whose top-level selection has
\* more than one item gives no definition and sets no flag; it returns the
\* error of multiple subscription fields when the schema has the root type of
\* subscriptions, and panics at the lookup of the root type, before the
\* check, when it has not.  No other operation is given that error.
C4_SubscriptionConstraint ==
    context.outcome # "None" =>
        IF MultipleSubscriptionFields(LastCompiled)
        THEN /\ NothingSynthesized
             /\ IF root_name(LastCompiled) \in DOMAIN schema.objects
                THEN /\ context.outcome = "Err"
                     /\ context.err = MULTIPLE_SUBSCRIPTION_FIELDS_ERROR
                     /\ pc = "failed"
                     /\ result[1].err = MULTIPLE_SUBSCRIPTION_FIELDS_ERROR
                ELSE context.outcome = "Panic"
        ELSE context.err # MULTIPLE_SUBSCRIPTION_FIELDS_ERROR

\* A subscription of two fields was given the error.
C4_Witness ==
    /\ context.outcome = "Err"
    /\ context.err = MULTIPLE_SUBSCRIPTION_FIELDS_ERROR
    /\ MultipleSubscriptionFields(LastCompiled)

\* The statement without the case of the missing root type: every call on a
\* subscription of more than one item returns an error.
C4_AlwaysReturnsError ==
    (context.outcome # "None" /\ MultipleSubscriptionFields(LastCompiled))
        => context.outcome = "Err"

\* ------------------------------------------------------------------------
\* The choice of the operations
\* ------------------------------------------------------------------------

\* The operations of the document of the state, in the order of the
\* document.
DeclaredOperations ==
    SelectSeq(query.definitions, LAMBDA d : d.kind = "Operation")

Named_(name) == {i \in 1..Len(DeclaredOperations) : DeclaredOperations[i].name = name}

OperationNames == {n_A, n_B, n_C, n_D, n_a}

\* What select_operation is to return for a name.
Selected(name) ==
    IF Named_(name) # {}
    THEN <<DeclaredOperations[CHOOSE i \in Named_(name) : \A j \in Named_(name) : i <= j]>>
    ELSE IF DeclaredOperations # <<>> THEN <<DeclaredOperations[1]>>
    ELSE <<>>

\* C2: select_operation returns the operation of the document whose name is
\* the given name when there is one, the first operation of the document
\* when there is none, and None only for a document without operations; the
\* operations of generate_module_token_stream, when a name is given, are the
\* one it returned.
C2_SelectOperation ==
    /\ \A name \in OperationNames :
          /\ select_operation(query, name) = Selected(name)
          /\ Named_(name) # {} => select_operation(query, name)[1].name = name
          /\ select_operation(query, name) = <<>> <=> DeclaredOperations = <<>>
    /\ (pc # "start" /\ options.operation_name # <<>> /\ DeclaredOperations # <<>>)
          => operations = Selected(options.operation_name[1])

\* The name of the second operation was given and the second operation was
\* taken.
C2_Witness ==
    /\ pc # "start"
    /\ Len(DeclaredOperations) >= 2
    /\ options.operation_name # <<>>
    /\ DeclaredOperations[1].name # options.operation_name[1]
    /\ DeclaredOperations[2].name = options.operation_name[1]
    /\ operations = <<DeclaredOperations[2]>>

\* C3: with an operation name that is the name of an operation of the
\* document only that operation is compiled, and with an operation name that
\* is the name of none of them every operation of the document is compiled.
C3_UnmatchedCompilesAll ==
    (pc # "start" /\ options.operation_name # <<>>)
        => IF Named_(options.operation_name[1]) # {}
           THEN /\ Len(operations) = 1
                /\ operations[1].name = options.operation_name[1]
           ELSE operations = DeclaredOperations

\* The types and the fragments that the k-th output of the module defines.
TypesDefinedBy(k) ==
    LET out == result[1].module.schema_token_streams[k].schema_output
    IN  out.scalar_definitions \cup out.enum_definitions
        \cup NamesOf(out.input_object_definitions)

FragmentsDefinedBy(k) ==
    NamesOf(result[1].module.schema_token_streams[k].schema_output.fragment_definitions)

\* C7: in the module of several operations, a scalar, an enum, an input
\* object or a fragment that more than one of the operations use is defined
\* once.
C7_SharedSynthesizedOnce ==
    (pc = "done" /\ result[1].outcome = "Ok")
        => \A j, k \in 1..Len(result[1].module.schema_token_streams) :
              j # k => /\ TypesDefinedBy(j) \cap TypesDefinedBy(k) = {}
                       /\ FragmentsDefinedBy(j) \cap FragmentsDefinedBy(k) = {}

\* ------------------------------------------------------------------------
\* The fields of the response and of the input objects
\* ------------------------------------------------------------------------

\* The output of the only operation of the module.
OnlyOutput == result[1].module.schema_token_streams[1].schema_output

Generated == pc = "done" /\ result[1].outcome = "Ok"

\* The field of Query that the operation selects, and the fields of the
\* response for it.
SelectedField == schema.objects["Query"][1]

ResponseFields == OnlyOutput.response_data_struct.fields

GivenStrategy ==
    IF options.deprecation_strategy = <<>> THEN "Warn"
    ELSE options.deprecation_strategy[1]

\* C8: a deprecated field is absent from the response type under Deny, has
\* the deprecation marker with exactly its reason (with no note when it has
\* no reason) under Warn, and has no deprecation annotation under Allow; a
\* field that is not deprecated is present without the annotation under
\* every strategy.
C8_DeprecationPolicy ==
    Generated =>
        IF SelectedField.deprecation.kind = "Deprecated"
        THEN CASE GivenStrategy = "Deny" -> ResponseFields = <<>>
               [] GivenStrategy = "Warn" ->
                    /\ Len(ResponseFields) = 1
                    /\ ResponseFields[1].deprecation =
                          [marker |-> TRUE, note |-> SelectedField.deprecation.reason]
               [] OTHER ->
                    /\ Len(ResponseFields) = 1
                    /\ ResponseFields[1].deprecation = [marker |-> FALSE, note |-> <<>>]
        ELSE /\ Len(ResponseFields) = 1
             /\ ResponseFields[1].deprecation = [marker |-> FALSE, note |-> <<>>]

\* A field deprecated with the reason R is in the response type under Warn,
\* with the marker and R.
C8_Witness ==
    /\ Generated
    /\ SelectedField.deprecation = Deprecated(<<"R">>)
    /\ options.deprecation_strategy = <<"Warn">>
    /\ Len(ResponseFields) = 1
    /\ ResponseFields[1].deprecation.note = <<"R">>

\* The rename a field of the given emitted tokens has to have for a name:
\* the name, when the emitted name is not that name, and none when it is.
RenameFor(tokens, name) ==
    IF tokens.ident # name THEN tokens.rename = <<name>> ELSE tokens.rename = <<>>

\* The name the selected field has in the response: its alias if it has one,
\* its name in the schema if not.
ResponseName ==
    LET item == query.definitions[1].selection[1]
    IN  IF item.alias # <<>> THEN item.alias[1] ELSE item.name

InputFieldTokens == OnlyOutput.input_object_definitions[1].fields[1]

\* C9: a field of the response type has a rename exactly when its emitted
\* name is not the name it has in the response (its alias, or its schema name
\* without an alias), and the rename is that name; a field of an input object
\* has a rename exactly when its emitted name is not its schema name, and the
\* rename is the schema name.
C9_NamingFidelity ==
    Generated =>
        /\ \A i \in 1..Len(ResponseFields) : RenameFor(ResponseFields[i], ResponseName)
        /\ Len(OnlyOutput.input_object_definitions) = 1
        /\ RenameFor(InputFieldTokens, SelectedField.name)

\* A field with an alias whose rename is the alias and not the schema name,
\* and a field of an input object whose rename is its schema name.
C9_Witness ==
    /\ Generated
    /\ Len(ResponseFields) = 1
    /\ ResponseFields[1].rename = <<ResponseName>>
    /\ ResponseName # SelectedField.name
    /\ InputFieldTokens.rename = <<SelectedField.name>>

\* The statement with the schema name for every field, with an alias too.
C9_RenameCarriesSchemaName ==
    Generated =>
        /\ \A i \in 1..Len(ResponseFields) :
              RenameFor(ResponseFields[i], SelectedField.name)
        /\ RenameFor(InputFieldTokens, SelectedField.name)

\* The emitted input object of a name.
EmittedInput(name) ==
    CHOOSE d \in {OnlyOutput.input_object_definitions[i] :
                     i \in 1..Len(OnlyOutput.input_object_definitions)} : d.name = name

EmittedField(name, field) ==
    CHOOSE f \in {EmittedInput(name).fields[i] : i \in 1..Len(EmittedInput(name).fields)} :
        f.ident = field

\* The field of the input object is emitted in a box, with nothing else
\* around its type, or with the lists and options of its type and no box.
Boxed(name, field) ==
    EmittedField(name, field).ty.wrappers = <<"Box">>

Plain(name, field) ==
    EmittedField(name, field).ty.wrappers = schema.inputs[name][field].wrappers

\* The fields of the emitted input objects: one for each field of the schema,
\* in a box exactly when its type is the input object itself with no list and
\* no option around it.
BoxedExactlyWhenSelf ==
    Generated =>
        /\ "In" \in NamesOf(OnlyOutput.input_object_definitions)
        /\ \A name \in NamesOf(OnlyOutput.input_object_definitions) :
              /\ Len(EmittedInput(name).fields) = Cardinality(DOMAIN schema.inputs[name])
              /\ \A field \in DOMAIN schema.inputs[name] :
                    IF /\ schema.inputs[name][field].name = name
                       /\ schema.inputs[name][field].wrappers = <<>>
                    THEN Boxed(name, field)
                    ELSE Plain(name, field)

\* What response_for_query returns for the operation whose turn it is.
NextReturn ==
    response_for_query(schema, is_required, query,
                       operations[Len(schema_and_operations) + 1],
                       GivenStrategy, Len(operations) > 1, <<>>)

\* C10: a field of an emitted input object is boxed exactly when its type is
\* the input object itself with no list and no option around it; every other
\* field has its type as it is, a list of the input object itself and a field
\* of another type included; and the call that emits the input objects
\* returns, with the input object of the variable among them.
C10_BoxedWhenSelfReference ==
    /\ BoxedExactlyWhenSelf
    /\ (pc = "compile" /\ Len(schema_and_operations) < Len(operations))
          => /\ NextReturn.outcome = "Ok"
             /\ "In" \in NamesOf(NextReturn.tokens.input_object_definitions)

\* In is emitted with a field of its own type in a box and with a list of its
\* own type without one.
C10_Witness ==
    /\ Generated
    /\ schema.inputs["In"][<<"a">>] = Named("In")
    /\ schema.inputs["In"][<<"b">>] = Vector(Named("In"))
    /\ Boxed("In", <<"a">>)
    /\ EmittedField("In", <<"b">>).ty.wrappers = <<"Vector">>

\* ------------------------------------------------------------------------
\* Input objects that embed one another
\* ------------------------------------------------------------------------

EmittedInputs == NamesOf(OnlyOutput.input_object_definitions)

\* The emitted input objects that an emitted input object holds in place: the
\* types of its fields that have no box, no list and no option around them.
DirectlyEmbedded(name) ==
    {EmittedInput(name).fields[i].ty.name :
        i \in {j \in 1..Len(EmittedInput(name).fields) :
                  EmittedInput(name).fields[j].ty.wrappers = <<>>}}
    \cap EmittedInputs

RECURSIVE EmbeddedClosure(_)

EmbeddedClosure(names) ==
    LET more == names \cup UNION {DirectlyEmbedded(n) : n \in names}
    IN  IF more = names THEN names ELSE EmbeddedClosure(more)

\* C11: no emitted input object holds itself in place, through its own fields
\* or through the fields of the input objects it holds in place.
C11_NoDirectEmbeddingCycle ==
    Generated =>
        \A name \in EmittedInputs : name \notin EmbeddedClosure(DirectlyEmbedded(name))

\* ------------------------------------------------------------------------
\* Fields that the schema does not have
\* ------------------------------------------------------------------------

RECURSIVE UnknownFields(_, _, _)

\* The fields a selection on an object names that the object, or the object
\* of a field above them, does not have: each with the type it was looked up
\* on.
UnknownFields(sch, object, selection) ==
    UNION { IF selection[i].kind # "Field" THEN {}
            ELSE IF FindField(sch.objects[object], selection[i].name) = 0
            THEN {[type |-> object, field |-> selection[i].name]}
            ELSE LET ty == inner_name_str(
                              sch.objects[object][FindField(sch.objects[object],
                                                      selection[i].name)].type_)
                 IN  IF ty \in DOMAIN sch.objects
                     THEN UnknownFields(sch, ty, selection[i].fields)
                     ELSE {} : i \in 1..Len(selection) }

\* The operation of the last call has its root type in the schema and is not
\* a subscription of several fields, and its selection names a field that
\* the schema does not have.
NamesUnknownField ==
    /\ context.outcome # "None"
    /\ root_name(LastCompiled) \in DOMAIN schema.objects
    /\ ~MultipleSubscriptionFields(LastCompiled)
    /\ UnknownFields(schema, root_name(LastCompiled), LastCompiled.selection) # {}

\* C12: when the selection of an operation, at its root or below a field,
\* names a field that the type it is looked up on does not have, the call
\* returns an error that carries the name of the field, the name of the type
\* and the names of the fields of the type.
C12_UnknownFieldError ==
    NamesUnknownField =>
        /\ context.outcome = "Err"
        /\ \E u \in UnknownFields(schema, root_name(LastCompiled), LastCompiled.selection) :
              /\ context.err.field = u.field
              /\ context.err.on = u.type
              /\ context.err.available = FieldNames(schema.objects[u.type])

\* ------------------------------------------------------------------------
\* The module of several operations
\* ------------------------------------------------------------------------

\* The tokens of the operations, all of them inside the one mod of the
\* module that merge_with_common_token_stream writes.
ModuleTokenStreams == result[1].module.schema_token_streams

SeveralOperations == Generated /\ Len(ModuleTokenStreams) > 1

\* The top-level types of every operation have the name of the operation in
\* front, in the module and in the impl of GraphQLQuery.
TopLevelTypesPrefixed ==
    \A k \in 1..Len(ModuleTokenStreams) :
        LET name == ModuleTokenStreams[k].constant.value
            out  == ModuleTokenStreams[k].schema_output
        IN  /\ out.response_data_struct.name = name \o ResponseDataName
            /\ out.variables_struct.name = name \o VariablesName
            /\ result[1].module.trait_token_streams[k].ResponseData = name \o ResponseDataName
            /\ result[1].module.trait_token_streams[k].Variables = name \o VariablesName

\* No two of the token streams inside the mod define the constant of the
\* same name.
ConstantsDefinedOnce ==
    \A j, k \in 1..Len(ModuleTokenStreams) :
        j # k => ModuleTokenStreams[j].constant.name # ModuleTokenStreams[k].constant.name

\* C13: in the module of several operations the top-level types of each
\* operation are named {Op}ResponseData and {Op}Variables, and the
\* definitions of different operations are not in the same namespace: the mod
\* does not define OPERATION_NAME twice.
C13_OperationsNamespaced ==
    SeveralOperations => (TopLevelTypesPrefixed /\ ConstantsDefinedOnce)

\* ------------------------------------------------------------------------
\* Field names that are keywords
\* ------------------------------------------------------------------------

\* C14: when the snake-cased name of a field of the response is a keyword,
\* the emitted identifier is that name with an underscore after it, never the
\* keyword itself, and the rename keeps the name of the response; also when
\* the name is not a keyword before it is snake-cased.
C14_KeywordEscaped ==
    Generated =>
        \A i \in 1..Len(ResponseFields) :
            to_snake_case(ResponseName) \in reserved =>
                /\ ResponseFields[i].ident = to_snake_case(ResponseName) \o <<"_">>
                /\ ResponseFields[i].ident \notin reserved
                /\ ResponseFields[i].rename = <<ResponseName>>

\* ------------------------------------------------------------------------
\* The caches
\* ------------------------------------------------------------------------

\* The map of a cache is read and written by the holder of its lock only:
\* a call is inside the block of a cache exactly when it holds the lock of
\* the cache, and no two calls hold it.
AccessUnderLock ==
    \A c \in CacheNames :
        /\ Cardinality(caches[c].lock) <= 1
        /\ \A t \in DOMAIN invocations :
              t \in caches[c].lock
                  <=> (invocations[t].stage = c /\ invocations[t].at \in {"locked", "vacant"})

\* The entry of a path is inserted at most once, is the value inserted, and
\* a query entry is a text that parses.
WrittenOnce ==
    \A c \in CacheNames, p \in Paths :
        /\ Len(inserted[c][p]) <= 1
        /\ caches[c].map[p] = inserted[c][p]
        /\ (c = "QUERY_CACHE" /\ caches[c].map[p] # <<>>) => Parses(caches[c].map[p][1])
        /\ Len(inserted[c][p]) =
              Cardinality({t \in DOMAIN invocations :
                              c \in invocations[t].wrote /\ PathOf(t, c) = p})

\* A call whose read, or whose parse of the query, failed inserted nothing
\* into that cache.
FailedInsertsNothing ==
    \A t \in DOMAIN invocations :
        invocations[t].failed_at \in CacheNames
            => invocations[t].failed_at \notin invocations[t].wrote

\* What a call works from is the entry of its path, so that the calls of one
\* path work from the same content.
IdenticalContent ==
    \A c \in CacheNames, t \in DOMAIN invocations :
        invocations[t].got[c] # <<>>
            => invocations[t].got[c] = caches[c].map[PathOf(t, c)]

\* C15: for every interleaving of concurrent calls, the map of each cache is
\* read and written under its lock only, the entry of a path is inserted at
\* most once, by a call that found it vacant and whose read (and parse, for
\* the query) succeeded, and never changes afterwards, a failed read or parse
\* inserts nothing, and the calls of one path work from the same content.
C15_CachesUnderConcurrency ==
    /\ AccessUnderLock
    /\ WrittenOnce
    /\ FailedInsertsNothing
    /\ IdenticalContent

\* Two calls of the same paths went through both caches: one inserted the two
\* entries, the other found them, and both work from the same content.
C15_Witness ==
    /\ invocations[1].query_path = invocations[2].query_path
    /\ invocations[1].schema_path = invocations[2].schema_path
    /\ invocations[1].stage = "parsed"
    /\ invocations[2].stage = "parsed"
    /\ invocations[1].wrote = CacheNames
    /\ invocations[2].wrote = {}
    /\ invocations[1].got = invocations[2].got


(***************************************************************************)
(* Closure of the emitted fragments                                        *)
(***************************************************************************)

\* The fragments the spreads of the emitted definitions of the k-th output
\* name: those of the selection of the operation, at any depth, and those of
\* the selections of the fragments the output defines.
SpreadsEmitted(k) ==
    SpreadsIn(operations[k].selection)
    \cup UNION { SpreadsIn(FragmentOf(query, n).selection) :
                   n \in NamesOf(schema_and_operations[k].schema_output.fragment_definitions) }

\* C16: in every output of response_for_query, whatever the order in which
\* the map of fragments yields them, every fragment that a spread of the
\* selection of the operation or of the selection of a defined fragment
\* names is itself defined in the output.
C16_FragmentClosure ==
    \A k \in 1..Len(schema_and_operations) :
        SpreadsEmitted(k)
            \subseteq NamesOf(schema_and_operations[k].schema_output.fragment_definitions)

====
